---- MODULE Spec2Model ----
(***************************************************************************)
(* A model of the CytoLens API core: the resource materializer            *)
(* (utils/slide_utils.py, ensure_slide_local_async and the S3 download    *)
(* routines), the slide-info TTL cache (get_slide_info_cached) and the    *)
(* inference task tracker (api/services/inference.py over                 *)
(* utils/postgres_utils.py).                                              *)
(*                                                                         *)
(* Scheduling: request handlers are coroutines of one asyncio event loop. *)
(* The code between two awaits runs without interleaving of other         *)
(* handlers, so each such stretch is one action.  Download routines run   *)
(* on threads of a ThreadPoolExecutor and do interleave with the loop.    *)
(***************************************************************************)
EXTENDS Integers, Sequences, FiniteSets, TLC

\* ------------------------------------------------------------------ bounds
NumCallers == 3
MaxTasks == 2
MaxTime == 1
MaxAdvances == 4
MaxDim == 9

\* ThreadPoolExecutor(max_workers=4)
max_workers == 4

\* TTLCache(maxsize=50, ttl=300)
ttl == 300

\* config.settings.tile_size
tile_size == 512

Callers == 1..NumCallers
SlideIds == {1, 2}
Kinds == {"slide", "pred"}
Resources == Kinds \X SlideIds

NoCaller == 0
NoKey == <<"none", 0>>

\* ------------------------------------------------------------- variables
VARIABLES
    \* --- materializer
    pc,          \* caller -> position of its ensure-local call
    key,         \* caller -> <<kind, slide id>> it asked for
    ev,          \* caller -> the asyncio.Event it holds (named by its creator)
    result,      \* caller -> what the call returned or raised
    job,         \* caller -> state of the executor job it submitted
    jres,        \* caller -> what the job returned or raised
    s3log,       \* caller -> remote-store calls made on its behalf
    dip,         \* _downloads_in_progress: slide id -> creator of the Event
    eventSet,    \* Events on which set() has been called
    localFile,   \* resource -> the local path exists
    remote,      \* resource -> the object exists in the bucket
    \* --- task tracker
    tasks,       \* inference_tasks table: id -> row
    nextId,      \* its autoincrement
    slides,      \* slides table: id -> owner
    secret,      \* config.settings.inference_api_key
    rq,          \* handlers suspended on a call to the compute service
    last,        \* the outcome of the handler that finished last
    now,         \* the clock
    \* --- slide-info cache
    cache,       \* SLIDE_INFO_CACHE: path -> entry
    timer,       \* the monotonic clock the cache reads
    lk,          \* the lookup that holds CACHE_LOCK
    cq,          \* thread -> its get_slide_info_cached call
    got,         \* what the last lookup returned or raised
    \* --- tile renderer
    info,        \* the slide info _load_slide_info derived for the open slide
    tile,        \* the last tile request and what gpu_render_tile did with it
    pick         \* the last application of _best_slide_level

matVars == <<pc, key, ev, result, job, jres, s3log, dip, eventSet, localFile, remote>>

trkVars == <<tasks, nextId, slides, secret, rq, last, now>>

cacheVars == <<cache, timer, lk, got, cq>>

tileVars == <<info, tile, pick>>

notMat == <<trkVars, cacheVars, tileVars>>
notTrk == <<matVars, cacheVars, tileVars>>
notCache == <<matVars, trkVars, tileVars>>
notTile == <<matVars, trkVars, cacheVars>>

vars == <<pc, key, ev, result, job, jres, s3log, dip, eventSet, localFile, remote,
          tasks, nextId, slides, secret, rq, last, now, cache, timer, lk, got, cq,
          info, tile, pick>>

\* --------------------------------------------------------------- outcomes
NoResult == [class |-> "none", detail |-> <<>>]

\* allowed_slide_extensions = [".svs"]; the slide's type column gives ext
SlideType(id) == "svs"

\* os.path.join(slide_dir, f"{slide_id}.{ext}") / (prediction_dir, f"{slide_id}.pkl")
LocalPath(res) ==
    IF res[1] = "slide"
    THEN <<"slide_dir", res[2], SlideType(res[2])>>
    ELSE <<"prediction_dir", res[2], "pkl">>

\* f"slide_{slide_id}_{ext}"
DownloadKey(id) == <<"slide", id, SlideType(id)>>

Returned(res) == [class |-> "ok", detail |-> LocalPath(res)]

\* raise ValueError(f"Slide {slide_id} not found in storage") /
\* raise ValueError(f"Predictions not found for slide {slide_id}")
NotFoundError(res) ==
    [class |-> "ValueError", detail |-> <<"not found in storage", res[1], res[2]>>]

\* raise ValueError(f"Download of slide {slide_id} failed in another request")
FailedElsewhereError(res) ==
    [class |-> "ValueError", detail |-> <<"failed in another request", res[1], res[2]>>]

\* botocore ClientError (or any other transport error) out of aws_utils
ClientError(op) == [class |-> "ClientError", detail |-> <<op>>]

\* viewer: raise ValueError(f"Slide {slide_id} not found")
SlideNotFoundError(sid) == [class |-> "ValueError", detail |-> <<"Slide not found", sid>>]

\* slide_utils has no attribute ensure_predictions_local_async
AttributeError(name) == [class |-> "AttributeError", detail |-> <<name>>]

\* asyncio.CancelledError: a BaseException, not an Exception
CancelledError == [class |-> "CancelledError", detail |-> <<>>]

\* main.py: add_exception_handler(ValueError, value_error_handler) answers
\* 400 ("Client error"); every other Exception goes to
\* general_exception_handler, which answers 500.
Status(class) == IF class = "ValueError" THEN 400 ELSE 500

\* ------------------------------------------------------ remote object store
\* aws_utils.file_exists: head_object gives True, a 404 ClientError gives
\* False, any other ClientError is re-raised.
HeadOutcomes(res) == (IF remote[res] THEN {"200"} ELSE {"404"}) \cup {"error"}

\* aws_utils.download_file: the whole object is written, or it raises.
GetOutcomes(res) == (IF remote[res] THEN {"ok"} ELSE {}) \cup {"error"}

\* (mutant: what a failed transfer had written stays at the local path)
Publish_Partial(res, g) == [localFile EXCEPT ![res] = TRUE]

\* s3_client.download_file(Filename=local_path): the managed transfer writes
\* to a temporary name and renames it to local_path when the whole object
\* has arrived; on failure nothing appears at local_path.
Publish(res, g) == IF g = "ok" THEN [localFile EXCEPT ![res] = TRUE] ELSE localFile

\* An upload completes (slides) or the compute service stores its results
\* (predictions): the object appears in the bucket.
S3Put(res) ==
    /\ ~remote[res]
    /\ remote' = [remote EXCEPT ![res] = TRUE]
    /\ UNCHANGED <<pc, key, ev, result, job, jres, s3log, dip, eventSet, localFile>>
    /\ UNCHANGED notMat

\* ------------------------------------------------------------ materializer
\* The event loop is inside a handler between two of its awaits.
LoopBusy == \E d \in Callers : pc[d] \in {"registered", "fetching"}

\* (mutant: the lookup never finds a registered download)
InProgress_NeverFound(id) == FALSE

\* download_key in _downloads_in_progress
InProgress(id) == dip[id] # NoCaller

\* (mutant: set() is never called)
Set_Never(c) == eventSet

\* download_event.set(), on the Event caller c created
Set(c) == eventSet \cup {c}

\* (mutant: the entry is left in the map)
Pop_Never(id) == dip

\* _downloads_in_progress.pop(download_key, None)
Pop(id) == [dip EXCEPT ![id] = NoCaller]

\* ensure_slide_local_async up to the end of the "with _downloads_lock" block
Call(c, id) ==
    LET res == <<"slide", id>> IN
    /\ pc[c] = "idle"
    /\ ~LoopBusy
    /\ key' = [key EXCEPT ![c] = res]
    /\ IF localFile[res]
       THEN \* fast path
            /\ pc' = [pc EXCEPT ![c] = "returned"]
            /\ result' = [result EXCEPT ![c] = Returned(res)]
            /\ UNCHANGED <<ev, dip>>
       ELSE IF InProgress(id)
       THEN \* another request is already downloading: take its Event
            /\ ev' = [ev EXCEPT ![c] = dip[id]]
            /\ pc' = [pc EXCEPT ![c] = "waiting"]
            /\ UNCHANGED <<result, dip>>
       ELSE \* create an Event, register it, i_should_download = True
            /\ ev' = [ev EXCEPT ![c] = c]
            /\ dip' = [dip EXCEPT ![id] = c]
            /\ pc' = [pc EXCEPT ![c] = "registered"]
            /\ UNCHANGED result
    /\ UNCHANGED <<job, jres, s3log, eventSet, localFile, remote>>
    /\ UNCHANGED notMat

\* Path 1 up to "await loop.run_in_executor(...)": the double check, then the
\* download routine is handed to the thread pool.
Submit(c) ==
    LET res == key[c] IN
    /\ pc[c] = "registered"
    /\ IF ~localFile[res]
       THEN /\ job' = [job EXCEPT ![c] = "queued"]
            /\ pc' = [pc EXCEPT ![c] = "downloading"]
            /\ UNCHANGED <<result, eventSet, dip>>
       ELSE \* the file appeared meanwhile: set(), return, finally: pop
            /\ eventSet' = Set(c)
            /\ result' = [result EXCEPT ![c] = Returned(res)]
            /\ pc' = [pc EXCEPT ![c] = "returned"]
            /\ dip' = Pop(res[2])
            /\ UNCHANGED job
    /\ UNCHANGED <<key, ev, jres, s3log, localFile, remote>>
    /\ UNCHANGED notMat

\* (mutant: the routine goes on to download_file whatever the check found)
DownloadRoutineCheck_Unchecked(c, h) ==
    /\ s3log' = [s3log EXCEPT ![c] = Append(@, "head:" \o h)]
    /\ job' = [job EXCEPT ![c] = "running"]
    /\ UNCHANGED jres

\* _download_slide_from_s3 on a pool thread, up to the call of download_file:
\* makedirs, then the existence check.
DownloadRoutineCheck(c, h) ==
    LET res == key[c] IN
    /\ s3log' = [s3log EXCEPT ![c] = Append(@, "head:" \o h)]
    /\ IF h = "200"
       THEN /\ job' = [job EXCEPT ![c] = "running"]
            /\ UNCHANGED jres
       ELSE /\ job' = [job EXCEPT ![c] = "done"]
            /\ jres' = [jres EXCEPT ![c] =
                          IF h = "404" THEN NotFoundError(res) ELSE ClientError("head")]

JobStart(c) ==
    /\ job[c] = "queued"
    /\ Cardinality({d \in Callers : job[d] = "running"}) < max_workers
    /\ \E h \in HeadOutcomes(key[c]) : DownloadRoutineCheck(c, h)
    /\ UNCHANGED <<pc, key, ev, result, dip, eventSet, localFile, remote>>
    /\ UNCHANGED notMat

\* download_file returns or raises; the routine returns local_path
JobFinish(c) ==
    LET res == key[c] IN
    /\ job[c] = "running"
    /\ \E g \in GetOutcomes(res) :
         /\ s3log' = [s3log EXCEPT ![c] = Append(@, "get:" \o g)]
         /\ localFile' = Publish(res, g)
         /\ jres' = [jres EXCEPT ![c] = IF g = "ok" THEN Returned(res) ELSE ClientError("get")]
    /\ job' = [job EXCEPT ![c] = "done"]
    /\ UNCHANGED <<pc, key, ev, result, dip, eventSet, remote>>
    /\ UNCHANGED notMat

\* download_file in two steps, for the specifications in which something
\* else (a slide deletion) touches the bucket and the local path while the
\* pool thread is inside it.  First the GET: the object, if it is there, is
\* received into the temporary file ...
JobTransfer(c) ==
    LET res == key[c] IN
    /\ job[c] = "running"
    /\ jres[c] = NoResult
    /\ \E g \in GetOutcomes(res) :
         /\ s3log' = [s3log EXCEPT ![c] = Append(@, "get:" \o g)]
         /\ jres' = [jres EXCEPT ![c] = IF g = "ok" THEN Returned(res) ELSE ClientError("get")]
         /\ job' = [job EXCEPT ![c] = IF g = "ok" THEN "running" ELSE "done"]
    /\ UNCHANGED <<pc, key, ev, result, dip, eventSet, localFile, remote>>
    /\ UNCHANGED notMat

\* ... then the temporary file is renamed to local_path and the routine
\* returns local_path
JobRename(c) ==
    LET res == key[c] IN
    /\ job[c] = "running"
    /\ jres[c] = Returned(res)
    /\ localFile' = Publish(res, "ok")
    /\ job' = [job EXCEPT ![c] = "done"]
    /\ UNCHANGED <<pc, key, ev, result, jres, s3log, dip, eventSet, remote>>
    /\ UNCHANGED notMat

\* Path 1 after the await: set() and return, or except Exception: set() and
\* re-raise; finally: pop.
OwnerResume(c) ==
    LET res == key[c] IN
    /\ pc[c] = "downloading"
    /\ job[c] = "done"
    /\ ~LoopBusy
    /\ eventSet' = Set(c)
    /\ IF jres[c].class = "ok"
       THEN /\ result' = [result EXCEPT ![c] = Returned(res)]
            /\ pc' = [pc EXCEPT ![c] = "returned"]
       ELSE /\ result' = [result EXCEPT ![c] = jres[c]]
            /\ pc' = [pc EXCEPT ![c] = "failed"]
    /\ dip' = Pop(res[2])
    /\ UNCHANGED <<key, ev, job, jres, s3log, localFile, remote>>
    /\ UNCHANGED notMat

\* Path 2 after "await download_event.wait()"
WaiterResume(c) ==
    LET res == key[c] IN
    /\ pc[c] = "waiting"
    /\ ev[c] \in eventSet
    /\ ~LoopBusy
    /\ IF localFile[res]
       THEN /\ result' = [result EXCEPT ![c] = Returned(res)]
            /\ pc' = [pc EXCEPT ![c] = "returned"]
       ELSE /\ result' = [result EXCEPT ![c] = FailedElsewhereError(res)]
            /\ pc' = [pc EXCEPT ![c] = "failed"]
    /\ UNCHANGED <<key, ev, job, jres, s3log, dip, eventSet, localFile, remote>>
    /\ UNCHANGED notMat

\* The handler's task is cancelled at its await.  CancelledError is not an
\* Exception: the except clause (and its set()) is skipped, finally pops.  A
\* job the pool has not started is cancelled with the future; a running one
\* goes on.
CancelOwner(c) ==
    /\ pc[c] = "downloading"
    /\ ~LoopBusy
    /\ job' = [job EXCEPT ![c] = IF @ = "queued" THEN "cancelled" ELSE @]
    /\ result' = [result EXCEPT ![c] = CancelledError]
    /\ pc' = [pc EXCEPT ![c] = "cancelled"]
    /\ dip' = Pop(key[c][2])
    /\ UNCHANGED <<key, ev, jres, s3log, eventSet, localFile, remote>>
    /\ UNCHANGED notMat

CancelWaiter(c) ==
    /\ pc[c] = "waiting"
    /\ ~LoopBusy
    /\ result' = [result EXCEPT ![c] = CancelledError]
    /\ pc' = [pc EXCEPT ![c] = "cancelled"]
    /\ UNCHANGED <<key, ev, job, jres, s3log, dip, eventSet, localFile, remote>>
    /\ UNCHANGED notMat

\* _download_predictions_from_s3, as for slides
PredictionsRoutine(c, res, h, g) ==
    IF h = "200"
    THEN /\ s3log' = [s3log EXCEPT ![c] = <<"head:" \o h, "get:" \o g>>]
         /\ localFile' = Publish(res, g)
         /\ IF g = "ok"
            THEN /\ result' = [result EXCEPT ![c] = Returned(res)]
                 /\ pc' = [pc EXCEPT ![c] = "returned"]
            ELSE /\ result' = [result EXCEPT ![c] = ClientError("get")]
                 /\ pc' = [pc EXCEPT ![c] = "failed"]
    ELSE /\ s3log' = [s3log EXCEPT ![c] = <<"head:" \o h>>]
         /\ result' = [result EXCEPT ![c] =
                         IF h = "404" THEN NotFoundError(res) ELSE ClientError("head")]
         /\ pc' = [pc EXCEPT ![c] = "failed"]
         /\ UNCHANGED localFile

\* ensure_predictions_local: an ordinary function with no local-existence
\* check (it is commented out) and no coordination.  The handler that calls
\* it enters _download_predictions_from_s3 on the loop thread ...
EnsurePredictions(c, id) ==
    /\ pc[c] = "idle"
    /\ ~LoopBusy
    /\ key' = [key EXCEPT ![c] = <<"pred", id>>]
    /\ pc' = [pc EXCEPT ![c] = "fetching"]
    /\ UNCHANGED <<ev, result, job, jres, s3log, dip, eventSet, localFile, remote>>
    /\ UNCHANGED notMat

\* ... and stays on it until file_exists and download_file have answered
PredictionsReturn(c) ==
    LET res == key[c] IN
    /\ pc[c] = "fetching"
    /\ \E h \in HeadOutcomes(res) : \E g \in (IF h = "200" THEN GetOutcomes(res) ELSE {"none"}) :
         PredictionsRoutine(c, res, h, g)
    /\ UNCHANGED <<key, ev, job, jres, dip, eventSet, remote>>
    /\ UNCHANGED notMat

MatInit ==
    /\ pc = [c \in Callers |-> "idle"]
    /\ key = [c \in Callers |-> NoKey]
    /\ ev = [c \in Callers |-> NoCaller]
    /\ result = [c \in Callers |-> NoResult]
    /\ job = [c \in Callers |-> "none"]
    /\ jres = [c \in Callers |-> NoResult]
    /\ s3log = [c \in Callers |-> <<>>]
    /\ dip = [id \in SlideIds |-> NoCaller]
    /\ eventSet = {}
    /\ localFile = [r \in Resources |-> FALSE]
    /\ remote = [r \in Resources |-> FALSE]

\* the slides whose predictions are asked for, and the resources asked for
PredSlides == {1}
Fetchable == ({"slide"} \X SlideIds) \cup ({"pred"} \X PredSlides)

MatNext ==
    \/ \E r \in Fetchable : S3Put(r)
    \/ \E c \in Callers, id \in SlideIds : Call(c, id)
    \/ \E c \in Callers : Submit(c)
    \/ \E c \in Callers : JobStart(c)
    \/ \E c \in Callers : JobFinish(c)
    \/ \E c \in Callers : OwnerResume(c)
    \/ \E c \in Callers : WaiterResume(c)
    \/ \E c \in Callers, id \in PredSlides : EnsurePredictions(c, id)
    \/ \E c \in Callers : PredictionsReturn(c)

MatCancel ==
    \/ \E c \in Callers : CancelOwner(c)
    \/ \E c \in Callers : CancelWaiter(c)

\* ============================================================ task tracker
\* constants.TaskState
TERMINAL == {"SUCCESS", "FAILURE", "REVOKED"}
ALL == {"PENDING", "STARTED", "SUCCESS", "FAILURE", "REVOKED"}

\* What the compute service (Celery) may report: its states are a superset
\* of the five the API names.
ServiceStates == ALL \cup {"RETRY"}
\* The answers to POST /inference and to DELETE /inference/tasks/{id} that
\* are tried: the usual one and one other.
StartStates == {"PENDING", "STARTED"}
CancelStates == {"REVOKED", "SUCCESS"}
\* The states a webhook is tried with: those a worker reports once it has
\* picked the job up.
WebhookStates == ServiceStates \ {"PENDING", "REVOKED"}

\* constants.ErrorMessage / constants.TaskMessage
INVALID_STATE == "Invalid state"
INVALID_TASK_ID == "Invalid task ID"
RESOURCE_NOT_FOUND == "Resource not found"
UNAUTHORIZED == "Unauthorized"
QUEUED == "Inference task queued"
CANCELLED == "Inference task cancelled"
STATUS_UPDATED == "Task status updated"

\* str.lower() on the state names
Lower(st) ==
    CASE st = "PENDING" -> "pending"
      [] st = "STARTED" -> "started"
      [] st = "SUCCESS" -> "success"
      [] st = "FAILURE" -> "failure"
      [] st = "REVOKED" -> "revoked"
      [] OTHER -> "retry"

\* TaskMessage.ALREADY_TERMINAL.format(state.lower())
ALREADY_TERMINAL(st) == "Task already " \o Lower(st)

Users == {"u1", "u2"}
Deleted == "<deleted>"
\* slide 1 belongs to u1, slide 2 to u2
InitialOwner(sid) == IF sid = 1 THEN "u1" ELSE "u2"

\* inference is asked for slide 1 (by its owner u1 and by u2, who owns slide 2)
StartSlides == {1}
ExtIds == {"j1", "j2"}
UnknownExtId == "j9"
Reqs == {"r1"}
Confidences == {5}
WebhookMessages == {"done"}
NoTime == 0 - 1
NoTask == 0

\* X-API-Key header: Header(None) gives None when the header is absent
NoneKey == "<None>"
Credentials == {NoneKey, "", "k1", "k2"}
Secrets == {"", "k1"}

\* Webhook deliveries <<X-API-Key, inference_task_id, state, message>>: every
\* payload under the key the compute service holds, one payload under the
\* other credentials
WebhookCalls ==
    ({"k1"} \X (ExtIds \cup {UnknownExtId}) \X WebhookStates \X WebhookMessages)
    \cup (Credentials \X {"j1"} \X {"SUCCESS"} \X WebhookMessages)

TaskIds == 1..MaxTasks
\* task_id path parameters: decimal strings and one that is no number
TaskIdStrings == {ToString(n) : n \in 1..(MaxTasks + 1)} \cup {"abc"}

\* the decimal strings and the numbers they denote
Parsed ==
    [str \in TaskIdStrings |->
        IF \E n \in 1..(MaxTasks + 1) : ToString(n) = str
        THEN CHOOSE n \in 1..(MaxTasks + 1) : ToString(n) = str
        ELSE NoTask]

\* int(task_id); NoTask stands for the ValueError it raises
ParseTaskId(str) == Parsed[str]

IdleReq == [pc |-> "idle", user |-> "", slide |-> 0, conf |-> 0, task |-> NoTask, itid |-> ""]

\* What a handler returned or raised, with the rows it asked postgres_utils
\* for (db) and the calls it made to the compute service (http).
Outcome(op, class, id, st, msg, at, db, http) ==
    [op |-> op, class |-> class, id |-> id, state |-> st,
     message |-> msg, at |-> at, db |-> db, http |-> http, before |-> ""]

\* ... and the state the row it wrote had before
Wrote(outcome, before) == [outcome EXCEPT !.before = before]

NoOutcome == Outcome("none", "none", NoTask, "", "", NoTime, <<>>, <<>>)

\* sys_utils.get_utc_timestamp(): the current time
get_utc_timestamp == now

\* (mutant: no state counts as terminal)
IsTerminal_Never(st) == FALSE

\* task["state"] in constants.TaskState.TERMINAL
IsTerminal(st) == st \in TERMINAL

\* (mutant: an empty credential is compared like any other)
Authorized_NoEmptyCheck(api_key) == api_key = secret

\* handle_webhook_callback: "if not api_key" and "if api_key != inference_api_key"
Authorized(api_key) == api_key \notin {NoneKey, ""} /\ api_key = secret

\* get_slide_by_id(slide_id, owner_id)
GetSlideById(sid, u) == sid \in SlideIds /\ slides[sid] = u

\* (mutant: the join with the slide's owner is lost)
GetTaskById_NoOwner(tid, u) == IF tid \in DOMAIN tasks THEN tid ELSE NoTask

\* get_task_by_id(task_id, user_id): the row joined with its slide
GetTaskById(tid, u) ==
    IF tid \in DOMAIN tasks /\ slides[tasks[tid].slide_id] = u THEN tid ELSE NoTask

\* (mutant: a row in a terminal state is left as it is)
SetFields_KeepTerminal(row, st, msg, at) ==
    IF row.state \in TERMINAL THEN row
    ELSE [row EXCEPT !.state = st, !.message = msg, !.completed_at = at]

\* for key, value in fields_to_update.items(): setattr(task, key, value)
SetFields(row, st, msg, at) ==
    [row EXCEPT !.state = st, !.message = msg, !.completed_at = at]

\* (mutant: the completion time is not written)
UpdateTask_Unstamped(tid, u, st, msg, at) ==
    IF GetTaskById(tid, u) = NoTask THEN tasks
    ELSE [tasks EXCEPT ![tid] = SetFields(@, st, msg, @.completed_at)]

\* update_task(task_id, user_id, state=, message=, completed_at=)
UpdateTask(tid, u, st, msg, at) ==
    IF GetTaskById(tid, u) = NoTask THEN tasks
    ELSE [tasks EXCEPT ![tid] = SetFields(@, st, msg, at)]

\* (mutant: the filter on inference_task_id is lost)
RowsByExternalId_Any(itid) == DOMAIN tasks

\* s.query(InferenceTask).filter_by(inference_task_id=inference_task_id)
RowsByExternalId(itid) == {t \in DOMAIN tasks : tasks[t].inference_task_id = itid}

\* (mutant: the column has no unique constraint)
InsertRefused_Never(itid) == FALSE

\* inference_task_id = Column(String, unique=True, nullable=False): the
\* insert of a second row with the same value is refused
InsertRefused(itid) == RowsByExternalId(itid) # {}

\* create_task: the new row
NewTask(sid, u, itid, st, conf, msg) ==
    [inference_task_id |-> itid, slide_id |-> sid, user_id |-> u, state |-> st,
     confidence |-> conf, message |-> msg, created_at |-> get_utc_timestamp,
     completed_at |-> NoTime]

\* (mutant: the status of the service's answer is not looked at)
Raises_Never(ok) == FALSE

\* response.raise_for_status(), and the httpx timeout: ok is "the service
\* answered in time with a success status"
Raises(ok) == ~ok

\* (mutant: the cascade reaches the tasks of every slide)
TasksOfSlide_All(sid) == DOMAIN tasks

\* Slide.tasks: the rows whose slide_id is the slide's id
TasksOfSlide(sid) == {t \in DOMAIN tasks : tasks[t].slide_id = sid}

\* start_inference up to "await client.post(...)"
StartInference(r, u, sid, conf) ==
    /\ rq[r].pc = "idle"
    /\ nextId <= MaxTasks
    /\ IF ~GetSlideById(sid, u)
       THEN /\ last' = Outcome("start", "ValueError", NoTask, "", RESOURCE_NOT_FOUND,
                               NoTime, <<"get_slide_by_id">>, <<>>)
            /\ UNCHANGED rq
       ELSE /\ rq' = [rq EXCEPT ![r] = [pc |-> "await_start", user |-> u, slide |-> sid,
                                        conf |-> conf, task |-> NoTask, itid |-> ""]]
            /\ UNCHANGED last
    /\ UNCHANGED <<tasks, nextId, slides, secret, now>>
    /\ UNCHANGED notTrk

\* start_inference after the await: raise_for_status, then create_task
StartRespond(r, ok, itid, st) ==
    LET q == rq[r] IN
    /\ q.pc = "await_start"
    /\ rq' = [rq EXCEPT ![r] = IdleReq]
    /\ IF Raises(ok)
       THEN \* timeout or error status: httpx raises
            /\ last' = Outcome("start", "HTTPError", NoTask, "", "", NoTime,
                               <<"get_slide_by_id">>, <<"POST /inference">>)
            /\ UNCHANGED <<tasks, nextId>>
       ELSE IF ~GetSlideById(q.slide, q.user)
       THEN \* create_task returns None; task["id"] raises TypeError
            /\ last' = Outcome("start", "TypeError", NoTask, "", "", NoTime,
                               <<"get_slide_by_id", "create_task">>, <<"POST /inference">>)
            /\ UNCHANGED <<tasks, nextId>>
       ELSE IF InsertRefused(itid)
       THEN \* inference_task_id is unique=True: the insert is refused
            /\ last' = Outcome("start", "IntegrityError", NoTask, "", "", NoTime,
                               <<"get_slide_by_id", "create_task">>, <<"POST /inference">>)
            /\ UNCHANGED <<tasks, nextId>>
       ELSE /\ tasks' = tasks @@ (nextId :> NewTask(q.slide, q.user, itid, st, q.conf, QUEUED))
            /\ nextId' = nextId + 1
            /\ last' = Outcome("start", "ok", nextId, st, QUEUED, NoTime,
                               <<"get_slide_by_id", "create_task">>, <<"POST /inference">>)
    /\ UNCHANGED <<slides, secret, now>>
    /\ UNCHANGED notTrk

\* cancel_task up to "await client.delete(...)"
CancelTask(r, u, str) ==
    LET tid == ParseTaskId(str)
        t == GetTaskById(tid, u)
    IN
    /\ rq[r].pc = "idle"
    /\ IF tid = NoTask
       THEN /\ last' = Outcome("cancel", "ValueError", NoTask, "", INVALID_TASK_ID,
                               NoTime, <<>>, <<>>)
            /\ UNCHANGED rq
       ELSE IF t = NoTask
       THEN /\ last' = Outcome("cancel", "ValueError", NoTask, "", RESOURCE_NOT_FOUND,
                               NoTime, <<"get_task_by_id">>, <<>>)
            /\ UNCHANGED rq
       ELSE IF IsTerminal(tasks[t].state)
       THEN /\ last' = Outcome("cancel", "ok", t, tasks[t].state,
                               ALREADY_TERMINAL(tasks[t].state), NoTime,
                               <<"get_task_by_id">>, <<>>)
            /\ UNCHANGED rq
       ELSE /\ rq' = [rq EXCEPT ![r] = [pc |-> "await_cancel", user |-> u,
                                        slide |-> tasks[t].slide_id, conf |-> 0, task |-> t,
                                        itid |-> tasks[t].inference_task_id]]
            /\ UNCHANGED last
    /\ UNCHANGED <<tasks, nextId, slides, secret, now>>
    /\ UNCHANGED notTrk

\* cancel_task after the await: raise_for_status, then update_task
CancelRespond(r, ok, st) ==
    LET q == rq[r] IN
    /\ q.pc = "await_cancel"
    /\ rq' = [rq EXCEPT ![r] = IdleReq]
    /\ IF Raises(ok)
       THEN /\ last' = Outcome("cancel", "HTTPError", NoTask, "", "", NoTime,
                               <<"get_task_by_id">>, <<"DELETE /inference/tasks">>)
            /\ UNCHANGED tasks
       ELSE /\ tasks' = UpdateTask(q.task, q.user, st, CANCELLED, get_utc_timestamp)
            /\ last' = Wrote(Outcome("cancel", "ok", q.task, st, CANCELLED, NoTime,
                                     <<"get_task_by_id", "update_task">>,
                                     <<"DELETE /inference/tasks">>),
                             IF GetTaskById(q.task, q.user) = NoTask THEN ""
                             ELSE tasks[q.task].state)
    /\ UNCHANGED <<nextId, slides, secret, now>>
    /\ UNCHANGED notTrk

\* handle_webhook_callback (the payload's timestamp is not used)
Webhook(api_key, itid, st, msg) ==
    LET iso_timestamp == get_utc_timestamp
        rows == RowsByExternalId(itid)
    IN
    /\ IF ~Authorized(api_key)
       THEN /\ last' = Outcome("webhook", "ValueError", NoTask, "", UNAUTHORIZED,
                               NoTime, <<>>, <<>>)
            /\ UNCHANGED tasks
       ELSE IF rows = {}
       THEN \* update_task_by_inference_task_id returns None
            /\ last' = Outcome("webhook", "ValueError", NoTask, "", RESOURCE_NOT_FOUND,
                               NoTime, <<"update_task_by_inference_task_id">>, <<>>)
            /\ UNCHANGED tasks
       ELSE \E t \in rows :    \* .first()
            /\ tasks' = [tasks EXCEPT ![t] = SetFields(@, st, msg, iso_timestamp)]
            /\ last' = Wrote(Outcome("webhook", "ok", t, st, STATUS_UPDATED, iso_timestamp,
                                     <<"update_task_by_inference_task_id">>, <<>>),
                             tasks[t].state)
    /\ UNCHANGED <<nextId, slides, secret, rq, now>>
    /\ UNCHANGED notTrk

\* get_task_status
GetTaskStatus(u, str) ==
    LET tid == ParseTaskId(str)
        t == GetTaskById(tid, u)
    IN
    /\ IF tid = NoTask
       THEN last' = Outcome("status", "ValueError", NoTask, "", INVALID_TASK_ID,
                            NoTime, <<>>, <<>>)
       ELSE IF t = NoTask
       THEN last' = Outcome("status", "ValueError", NoTask, "", RESOURCE_NOT_FOUND,
                            NoTime, <<"get_task_by_id">>, <<>>)
       ELSE last' = Outcome("status", "ok", t, tasks[t].state, tasks[t].message,
                            tasks[t].completed_at, <<"get_task_by_id">>, <<>>)
    /\ UNCHANGED <<tasks, nextId, slides, secret, rq, now>>
    /\ UNCHANGED notTrk

\* get_tasks(user_id): the rows joined with a slide the user owns
GetTasks(u) ==
    /\ last' = Outcome("list", "ok", NoTask, "", "", NoTime, <<"get_tasks">>, <<>>)
    /\ UNCHANGED <<tasks, nextId, slides, secret, rq, now>>
    /\ UNCHANGED notTrk

\* get_slide_tasks(slide_id, user_id): an empty list when the slide is not
\* the user's
GetSlideTasks(u, sid) ==
    /\ last' = Outcome("slide_tasks", "ok", NoTask, "", "", NoTime,
                       <<"get_tasks_by_slide">>, <<>>)
    /\ UNCHANGED <<tasks, nextId, slides, secret, rq, now>>
    /\ UNCHANGED notTrk

\* (mutant: the state of the task is not looked at)
NotSuccess_Never(st) == FALSE

\* get_task_predictions: if task["state"] != constants.TaskState.SUCCESS
NotSuccess(st) == st # "SUCCESS"

\* get_task_predictions up to the call of ensure_predictions_local, which
\* has no parameter named inference_task_id
GetTaskPredictions(u, tid) ==
    LET t == GetTaskById(tid, u) IN
    /\ IF t = NoTask
       THEN last' = Outcome("predictions", "ValueError", NoTask, "", RESOURCE_NOT_FOUND,
                            NoTime, <<"get_task_by_id">>, <<>>)
       ELSE IF NotSuccess(tasks[t].state)
       THEN last' = Outcome("predictions", "ValueError", t, tasks[t].state, INVALID_STATE,
                            NoTime, <<"get_task_by_id">>, <<>>)
       ELSE IF ~GetSlideById(tasks[t].slide_id, u)
       THEN last' = Outcome("predictions", "ValueError", t, tasks[t].state,
                            RESOURCE_NOT_FOUND, NoTime,
                            <<"get_task_by_id", "get_slide_by_id">>, <<>>)
       ELSE last' = Outcome("predictions", "TypeError", t, tasks[t].state, "",
                            NoTime, <<"get_task_by_id", "get_slide_by_id">>, <<>>)
    /\ UNCHANGED <<tasks, nextId, slides, secret, rq, now>>
    /\ UNCHANGED notTrk

\* delete_slide: the objects in the bucket, the local files, then the row;
\* s.delete(slide) cascades to Slide.tasks ("all, delete-orphan")
DeleteSlide(u, sid) ==
    /\ IF ~GetSlideById(sid, u)
       THEN /\ last' = Outcome("delete_slide", "ValueError", NoTask, "",
                               RESOURCE_NOT_FOUND, NoTime, <<"get_slide_by_id">>, <<>>)
            /\ UNCHANGED <<tasks, slides, remote, localFile>>
       ELSE /\ remote' = [res \in Resources |-> IF res[2] = sid THEN FALSE ELSE remote[res]]
            /\ localFile' = [res \in Resources |->
                                IF res[2] = sid THEN FALSE ELSE localFile[res]]
            /\ slides' = [slides EXCEPT ![sid] = Deleted]
            /\ tasks' = [t \in DOMAIN tasks \ TasksOfSlide(sid) |-> tasks[t]]
            /\ last' = Outcome("delete_slide", "ok", NoTask, "", "", NoTime,
                               <<"get_slide_by_id", "delete_slide">>, <<>>)
    /\ UNCHANGED <<nextId, secret, rq, now>>
    /\ UNCHANGED <<pc, key, ev, result, job, jres, s3log, dip, eventSet>>
    /\ UNCHANGED <<cacheVars, tileVars>>

\* delete_slide has no await: it runs when the loop is between handlers
DeleteSlideOnLoop(u, sid) == ~LoopBusy /\ DeleteSlide(u, sid)

\* (mutant: only a slide that does not exist is refused)
SlideRefused_AnyOwner(sid, u) == sid \notin SlideIds \/ slides[sid] = Deleted

\* viewer: "slide_db = postgres_utils.get_slide_by_id(slide_id=slide_id,
\* owner_id=user_id); if not slide_db: raise ValueError"
SlideRefused(sid, u) == ~GetSlideById(sid, u)

\* the request is refused before anything else is called
Refuse(c, sid) ==
    /\ pc[c] = "idle"
    /\ ~LoopBusy
    /\ pc' = [pc EXCEPT ![c] = "failed"]
    /\ result' = [result EXCEPT ![c] = SlideNotFoundError(sid)]
    /\ UNCHANGED <<key, ev, job, jres, s3log, dip, eventSet, localFile, remote>>
    /\ UNCHANGED notMat

\* viewer.create_dzi and viewer.get_tile up to the first await inside
\* ensure_slide_local_async
ViewSlide(c, u, sid) ==
    IF SlideRefused(sid, u) THEN Refuse(c, sid) ELSE Call(c, sid)

\* viewer.get_predictions: the same check, then the call of
\* slide_utils.ensure_predictions_local_async, which does not exist
ViewPredictions(c, u, sid) ==
    IF SlideRefused(sid, u) THEN Refuse(c, sid)
    ELSE /\ pc[c] = "idle"
         /\ ~LoopBusy
         /\ pc' = [pc EXCEPT ![c] = "failed"]
         /\ result' = [result EXCEPT ![c] = AttributeError("ensure_predictions_local_async")]
         /\ UNCHANGED <<key, ev, job, jres, s3log, dip, eventSet, localFile, remote>>
         /\ UNCHANGED notMat

\* time passes
Tick ==
    /\ now < MaxTime
    /\ now' = now + 1
    /\ UNCHANGED <<tasks, nextId, slides, secret, rq, last>>
    /\ UNCHANGED notTrk

TrkInit ==
    /\ tasks = <<>>
    /\ nextId = 1
    /\ slides = [sid \in SlideIds |-> InitialOwner(sid)]
    /\ secret \in Secrets
    /\ rq = [r \in Reqs |-> IdleReq]
    /\ last = NoOutcome
    /\ now = 0

TrkNext ==
    \/ \E r \in Reqs, u \in Users, sid \in StartSlides, conf \in Confidences :
         StartInference(r, u, sid, conf)
    \/ \E r \in Reqs, itid \in ExtIds, st \in StartStates : StartRespond(r, TRUE, itid, st)
    \/ \E r \in Reqs : StartRespond(r, FALSE, "", "")
    \/ \E r \in Reqs, u \in Users, str \in TaskIdStrings : CancelTask(r, u, str)
    \/ \E r \in Reqs, st \in CancelStates : CancelRespond(r, TRUE, st)
    \/ \E r \in Reqs : CancelRespond(r, FALSE, "")
    \/ \E call \in WebhookCalls : Webhook(call[1], call[2], call[3], call[4])
    \/ \E u \in Users, sid \in StartSlides : DeleteSlide(u, sid)
    \/ Tick

\* ========================================================== slide-info cache
\* slide_utils.SLIDE_INFO_CACHE and get_slide_info_cached.  CACHE_LOCK is held
\* for the whole of a lookup, so one lookup is under way at a time; the clock
\* is not stopped by the lock.  The 50 entries of maxsize are not reached
\* with the paths below.

CachePaths == {LocalPath(<<"slide", id>>) : id \in SlideIds}

\* the clock moves in steps of half a ttl
Quantum == ttl \div 2

NoLookup == [pc |-> "idle", path |-> <<>>, loaded |-> 0]
NoGot == [class |-> "none", path |-> <<>>, inserted |-> 0, at |-> 0, how |-> ""]

\* the threads that call get_slide_info_cached, each once
NumThreads == 2
Threads == 1..NumThreads

\* a thread that has not called get_slide_info_cached; of a call: the path,
\* whether the path was cached when the call was made, the threads then
\* inside the function, whether the cache was cleared since, and what the
\* call gave back: the entry is named by the time it was inserted
NoCall == [pc |-> "idle", path |-> <<>>, absent |-> FALSE, peers |-> {},
           cleared |-> FALSE, class |-> "none", how |-> "", entry |-> 0]

InCall(c) == cq[c].pc \in {"blocked", "locked"}

\* TTLCache.__contains__: the key has a link and timer() < link.expires
Contains(path, t) == path \in DOMAIN cache /\ t < cache[path].expires

\* TTLCache.__getitem__: a missing or expired key goes to __missing__,
\* which raises KeyError
GetItemRaises(path, t) == path \notin DOMAIN cache \/ ~(t < cache[path].expires)

\* (mutant: a read pushes the entry's expiry back, a sliding TTL)
GetItem_Sliding(path, t) == [cache EXCEPT ![path].expires = t + ttl]

\* TTLCache.__getitem__ reads the link and leaves its expiry as it is
GetItem(path, t) == cache

\* TTLCache.expire(time): drops the links with not (time < link.expires)
Expire(t) == [p \in {q \in DOMAIN cache : t < cache[q].expires} |-> cache[p]]

\* TTLCache.__setitem__: expire(time), store, link.expires = time + ttl
SetItem(path, value, t) ==
    [p \in DOMAIN Expire(t) \cup {path} |->
        IF p = path THEN [value |-> value, inserted |-> t, expires |-> t + ttl]
        ELSE cache[p]]

\* a thread calls get_slide_info_cached(slide_path) and comes to
\* "with CACHE_LOCK"
CachedCall(c, path) ==
    /\ cq[c].pc = "idle"
    /\ cq' = [cq EXCEPT ![c] =
                [NoCall EXCEPT !.pc = "blocked", !.path = path,
                               !.absent = ~Contains(path, timer),
                               !.peers = {d \in Threads \ {c} : InCall(d)}]]
    /\ UNCHANGED <<cache, timer, lk, got>>
    /\ UNCHANGED notCache

\* (mutant: the membership test is made before the lock is taken)
Found_Unlocked(c, path, t) == ~cq[c].absent

\* "if slide_path in SLIDE_INFO_CACHE", made by the holder of the lock
Found(c, path, t) == Contains(path, t)

\* get_slide_info_cached: take the lock; "if slide_path in SLIDE_INFO_CACHE"
LookupBegin(c) ==
    /\ lk.pc = "idle"
    /\ cq[c].pc = "blocked"
    /\ lk' = [pc |-> IF Found(c, cq[c].path, timer) THEN "hit" ELSE "miss",
              path |-> cq[c].path, loaded |-> 0]
    /\ cq' = [cq EXCEPT ![c].pc = "locked"]
    /\ UNCHANGED <<cache, timer, got>>
    /\ UNCHANGED notCache

\* "return SLIDE_INFO_CACHE[slide_path]"
LookupGet ==
    /\ lk.pc = "hit"
    /\ got' = IF GetItemRaises(lk.path, timer)
              THEN [class |-> "KeyError", path |-> lk.path, inserted |-> 0,
                    at |-> timer, how |-> "hit"]
              ELSE [class |-> "ok", path |-> lk.path,
                    inserted |-> cache[lk.path].inserted, at |-> timer, how |-> "hit"]
    /\ cache' = GetItem(lk.path, timer)
    /\ cq' = [c \in Threads |->
                IF cq[c].pc = "locked"
                THEN [cq[c] EXCEPT !.pc = "done", !.class = got'.class, !.how = "hit",
                                   !.entry = got'.inserted]
                ELSE cq[c]]
    /\ lk' = NoLookup
    /\ UNCHANGED timer
    /\ UNCHANGED notCache

\* "slide_info = _load_slide_info(slide_path)": the value is named by the
\* time it was read from the file
LookupLoad ==
    /\ lk.pc = "miss"
    /\ lk' = [lk EXCEPT !.pc = "loaded", !.loaded = timer]
    /\ UNCHANGED <<cache, timer, got, cq>>
    /\ UNCHANGED notCache

\* "SLIDE_INFO_CACHE[slide_path] = slide_info; return slide_info"
LookupStore ==
    /\ lk.pc = "loaded"
    /\ cache' = SetItem(lk.path, lk.loaded, timer)
    /\ got' = [class |-> "ok", path |-> lk.path, inserted |-> timer, at |-> timer,
               how |-> "load"]
    /\ cq' = [c \in Threads |->
                IF cq[c].pc = "locked"
                THEN [cq[c] EXCEPT !.pc = "done", !.class = "ok", !.how = "load",
                                   !.entry = timer]
                ELSE cq[c]]
    /\ lk' = NoLookup
    /\ UNCHANGED timer
    /\ UNCHANGED notCache

\* clear_cache, under the lock
ClearCache ==
    /\ lk.pc = "idle"
    /\ cache # <<>>
    /\ cache' = <<>>
    /\ cq' = [c \in Threads |->
                IF cq[c].pc = "idle" THEN cq[c] ELSE [cq[c] EXCEPT !.cleared = TRUE]]
    /\ UNCHANGED <<timer, lk, got>>
    /\ UNCHANGED notCache

\* time.monotonic() moves on
Advance ==
    /\ timer < MaxAdvances * Quantum
    /\ timer' = timer + Quantum
    /\ UNCHANGED <<cache, lk, got, cq>>
    /\ UNCHANGED notCache

CacheInit ==
    /\ cache = <<>>
    /\ timer = 0
    /\ lk = NoLookup
    /\ cq = [c \in Threads |-> NoCall]
    /\ got = NoGot

CacheNext ==
    \/ \E c \in Threads, path \in CachePaths : CachedCall(c, path)
    \/ \E c \in Threads : LookupBegin(c)
    \/ LookupGet
    \/ LookupLoad
    \/ LookupStore
    \/ ClearCache
    \/ Advance

\* ============================================================ tile renderer
\* slide_utils._load_slide_info and slide_utils.gpu_render_tile, as functions
\* of the native size and of the request.  Level L of dz_dims is element
\* L + 1 of the sequence.

RECURSIVE Pow2(_)
\* 2 ** n
Pow2(n) == IF n <= 0 THEN 1 ELSE 2 * Pow2(n - 1)

RECURSIVE CeilLog2From(_, _)
CeilLog2From(n, k) == IF Pow2(k) >= n THEN k ELSE CeilLog2From(n, k + 1)

\* math.ceil(math.log2(n)) for n >= 1
CeilLog2(n) == CeilLog2From(n, 0)

\* (mutant: the quotient is truncated)
CeilDiv_Floor(a, b) == a \div b

\* math.ceil(a / b) for a >= 0, b >= 1
CeilDiv(a, b) == (a + b - 1) \div b

\* min(a, b)
Min(a, b) == IF a <= b THEN a ELSE b

\* The native sizes tried: every size up to MaxDim and some of real slides
BigSizes == {<<10000, 8000>>, <<1025, 600>>, <<512, 512>>, <<513, 1>>, <<1024, 2048>>}
Sizes == ((1..MaxDim) \X (1..MaxDim)) \cup BigSizes

\* The requests tried
Levels == (0 - 1)..16
Cols == {0 - 1, 0, 1, 2, 19, 20}
Rows == {0 - 1, 0, 1, 15, 16}

NoInfo == [full_width |-> 0, full_height |-> 0, dz_dims |-> <<>>]

\* _load_slide_info: max_level and the dimensions of the Deep Zoom levels
LoadSlideInfo(full_width, full_height) ==
    LET max_dim == IF full_width >= full_height THEN full_width ELSE full_height
        max_level == CeilLog2(max_dim)
    IN [full_width |-> full_width, full_height |-> full_height,
        dz_dims |-> [i \in 1..(max_level + 1) |->
                        <<CeilDiv(full_width, Pow2(max_level - (i - 1))),
                          CeilDiv(full_height, Pow2(max_level - (i - 1)))>>]]

NoBuffer == [width |-> 0, height |-> 0, content |-> <<0, 0>>, padded |-> FALSE]

NoTile ==
    [level |-> 0, col |-> 0, row |-> 0, class |-> "none", args |-> <<>>,
     raisedAt |-> "", reads |-> 0, extent |-> <<0, 0>>, buffer |-> NoBuffer]

\* a bare "raise ValueError" at the named check, before slide.read_region
Raise(level, col, row, where) ==
    [level |-> level, col |-> col, row |-> row, class |-> "ValueError", args |-> <<>>,
     raisedAt |-> where, reads |-> 0, extent |-> <<0, 0>>, buffer |-> NoBuffer]

\* (mutant: the last level is refused)
LevelRefused_OffByOne(inf, level) == level < 0 \/ level >= Len(inf.dz_dims) - 1

\* "if level < 0 or level >= DZ_LEVELS"
LevelRefused(inf, level) == level < 0 \/ level >= Len(inf.dz_dims)

\* (mutant: a tile whose origin is on the edge is let through)
OriginRefused_Strict(lvl_w, lvl_h, x, y) == x > lvl_w \/ y > lvl_h

\* "if x >= lvl_w or y >= lvl_h"
OriginRefused(lvl_w, lvl_h, x, y) == x >= lvl_w \/ y >= lvl_h

\* (mutant: every tile is taken to be a full one)
VisibleExtent_Full(lvl_w, lvl_h, x, y) == <<tile_size, tile_size>>

\* "tw, th = min(tile_size, lvl_w - x), min(tile_size, lvl_h - y)"
VisibleExtent(lvl_w, lvl_h, x, y) ==
    <<Min(tile_size, lvl_w - x), Min(tile_size, lvl_h - y)>>

\* (mutant: the image is returned as it was resized, without padding)
Pad_Never(tw, th) ==
    [width |-> tw, height |-> th, content |-> <<tw, th>>, padded |-> FALSE]

\* The image after the resize to (th, tw) and "if tw != tile_size or th !=
\* tile_size: pad = cp.zeros((tile_size, tile_size, 3)); pad[:th, :tw] =
\* gpu_img": content names the rectangle at the origin that holds the image
Pad(tw, th) ==
    IF tw # tile_size \/ th # tile_size
    THEN [width |-> tile_size, height |-> tile_size, content |-> <<tw, th>>,
          padded |-> TRUE]
    ELSE [width |-> tw, height |-> th, content |-> <<tw, th>>, padded |-> FALSE]

\* the pixel of the buffer at column px, row py
PixelAt(buf, px, py) ==
    IF px < buf.content[1] /\ py < buf.content[2] THEN "image" ELSE "zero"

\* gpu_render_tile
GpuRenderTile(inf, level, col, row) ==
    IF LevelRefused(inf, level) THEN Raise(level, col, row, "level")
    ELSE LET lvl_w == inf.dz_dims[level + 1][1]
             lvl_h == inf.dz_dims[level + 1][2]
             x == col * tile_size
             y == row * tile_size
         IN IF OriginRefused(lvl_w, lvl_h, x, y) THEN Raise(level, col, row, "origin")
            ELSE LET ext == VisibleExtent(lvl_w, lvl_h, x, y) IN
                 [level |-> level, col |-> col, row |-> row, class |-> "ok",
                  args |-> <<>>, raisedAt |-> "", reads |-> 1, extent |-> ext,
                  buffer |-> Pad(ext[1], ext[2])]

\* get_slide_info_cached misses: the slide is opened.  One slide and one
\* request are followed: both functions are pure.
OpenSlide(full_width, full_height) ==
    /\ info = NoInfo
    /\ info' = LoadSlideInfo(full_width, full_height)
    /\ UNCHANGED <<tile, pick>>
    /\ UNCHANGED notTile

\* viewer.get_tile: gpu_render_tile on the open slide
RenderTile(level, col, row) ==
    /\ info # NoInfo
    /\ tile = NoTile
    /\ tile' = GpuRenderTile(info, level, col, row)
    /\ UNCHANGED <<info, pick>>
    /\ UNCHANGED notTile

\* The native pyramids tried: the downsample factors of up to MaxLevels
\* levels, in the order of the file, from the most detailed level on
MaxLevels == 3
MaxFactor == 4
Factors == 1..MaxFactor
Pyramids ==
    UNION {{p \in [1..n -> Factors] : \A i \in 1..(n - 1) : p[i] <= p[i + 1]} :
            n \in 1..MaxLevels}
Scales == 1..(MaxFactor + 1)

NoPick == [level_downsamples |-> <<>>, ds_needed |-> 0, lvl |-> 0]

RECURSIVE BestSlideLevelFrom(_, _, _, _)
\* the loop of _best_slide_level at element i (index i - 1) with lvl so far
BestSlideLevelFrom(level_downsamples, ds_needed, i, lvl) ==
    IF i > Len(level_downsamples) THEN lvl
    ELSE IF level_downsamples[i] <= ds_needed
         THEN BestSlideLevelFrom(level_downsamples, ds_needed, i + 1, i - 1)
         ELSE lvl

\* _best_slide_level
BestSlideLevel(level_downsamples, ds_needed) ==
    BestSlideLevelFrom(level_downsamples, ds_needed, 1, 0)

\* gpu_render_tile: "slide_lvl = _best_slide_level(level_downsamples,
\* max(scale_x, scale_y))"
PickLevel(level_downsamples, ds_needed) ==
    /\ pick = NoPick
    /\ pick' = [level_downsamples |-> level_downsamples, ds_needed |-> ds_needed,
                lvl |-> BestSlideLevel(level_downsamples, ds_needed)]
    /\ UNCHANGED <<info, tile>>
    /\ UNCHANGED notTile

TileInit ==
    /\ info = NoInfo
    /\ tile = NoTile
    /\ pick = NoPick

TileNext ==
    \/ \E sz \in Sizes : OpenSlide(sz[1], sz[2])
    \/ \E level \in Levels, col \in Cols, row \in Rows : RenderTile(level, col, row)

\* ========================================================== specifications

\* The state after start-up under the configured secret
Configured(s) == MatInit /\ TrkInit /\ CacheInit /\ TileInit /\ secret = s

\* inference_api_key: str = "" unless the environment sets it
DefaultInit == \E s \in {""} : Configured(s)
AnyInit == \E s \in Secrets : Configured(s)

MaterializerSpec == DefaultInit /\ [][MatNext]_vars

\* The same with cancellation of a handler at its await.  The pool runs the
\* jobs it holds and the loop runs the handlers that are ready; requests,
\* uploads and cancellations need not happen.
MatFairness ==
    \A c \in Callers :
        /\ WF_vars(Submit(c))
        /\ WF_vars(JobStart(c))
        /\ WF_vars(JobFinish(c))
        /\ WF_vars(OwnerResume(c))
        /\ WF_vars(WaiterResume(c))
        /\ WF_vars(PredictionsReturn(c))

CancelSpec == DefaultInit /\ [][MatNext \/ MatCancel]_vars /\ MatFairness

\* Calls for one slide, with the pool and the loop running what they hold
\* and no handler cancelled.
OneSlide == 1

FetchNext ==
    \/ S3Put(<<"slide", OneSlide>>)
    \/ \E c \in Callers : Call(c, OneSlide)
    \/ \E c \in Callers : Submit(c)
    \/ \E c \in Callers : JobStart(c)
    \/ \E c \in Callers : JobFinish(c)
    \/ \E c \in Callers : OwnerResume(c)
    \/ \E c \in Callers : WaiterResume(c)

FetchSpec == DefaultInit /\ [][FetchNext]_vars /\ MatFairness

\* The viewer's requests for one slide by its owner and by another user,
\* with the slide's deletion by its owner; the transfer is followed through
\* its GET and its rename.
ViewerNext ==
    \/ S3Put(<<"slide", OneSlide>>)
    \/ \E c \in Callers, u \in Users : ViewSlide(c, u, OneSlide)
    \/ \E c \in Callers, u \in Users : ViewPredictions(c, u, OneSlide)
    \/ \E c \in Callers : Submit(c)
    \/ \E c \in Callers : JobStart(c)
    \/ \E c \in Callers : JobTransfer(c)
    \/ \E c \in Callers : JobRename(c)
    \/ \E c \in Callers : OwnerResume(c)
    \/ \E c \in Callers : WaiterResume(c)
    \/ \E u \in Users : DeleteSlideOnLoop(u, OneSlide)

ViewerSpec == DefaultInit /\ [][ViewerNext]_vars

TrackerSpec == AnyInit /\ [][TrkNext]_vars

\* The tracker with tasks on both slides and the compute service holding the
\* configured key: deliveries of STARTED, SUCCESS and FAILURE, one answer
\* per call.
KeyedInit == \E s \in {"k1"} : Configured(s)

SlideNext ==
    \/ \E r \in Reqs, u \in Users, sid \in SlideIds, conf \in Confidences :
         StartInference(r, u, sid, conf)
    \/ \E r \in Reqs, itid \in ExtIds : StartRespond(r, TRUE, itid, "PENDING")
    \/ \E r \in Reqs : StartRespond(r, FALSE, "", "")
    \/ \E r \in Reqs, u \in Users, str \in TaskIdStrings : CancelTask(r, u, str)
    \/ \E r \in Reqs : CancelRespond(r, TRUE, "REVOKED")
    \/ \E r \in Reqs : CancelRespond(r, FALSE, "")
    \/ \E itid \in ExtIds, st \in {"STARTED", "SUCCESS", "FAILURE"} :
         Webhook("k1", itid, st, "done")
    \/ \E u \in Users, str \in TaskIdStrings : GetTaskStatus(u, str)
    \/ \E u \in Users : GetTasks(u)
    \/ \E u \in Users, sid \in SlideIds : GetSlideTasks(u, sid)
    \/ \E u \in Users, tid \in 1..(MaxTasks + 1) : GetTaskPredictions(u, tid)
    \/ \E u \in Users, sid \in SlideIds : DeleteSlide(u, sid)

SlideSpec == KeyedInit /\ [][SlideNext]_vars

CacheSpec == DefaultInit /\ [][CacheNext]_vars

TileSpec == DefaultInit /\ [][TileNext]_vars

\* The choice of the native level, over the pyramids and scales tried
LevelNext == \E p \in Pyramids, ds \in Scales : PickLevel(p, ds)

LevelSpec == DefaultInit /\ [][LevelNext]_vars


\* ----------------------------------------------------- materializer claims
SlideCallers(id) == {c \in Callers : key[c] = <<"slide", id>>}
InFlight(id) == {c \in SlideCallers(id) : job[c] \in {"queued", "running"}}
Submitted(id) == {c \in SlideCallers(id) : job[c] # "none"}
FailedJobs(id) == {c \in SlideCallers(id) : job[c] = "done" /\ jres[c].class # "ok"}
Finished(c) == pc[c] \in {"returned", "failed"}

C2_SameOutcome ==
    \A c1, c2 \in Callers :
        (ev[c1] # NoCaller /\ ev[c1] = ev[c2] /\ Finished(c1) /\ Finished(c2))
            => result[c1].class = result[c2].class

C10_CancelReleasesWaiters ==
    \A c \in Callers :
        /\ (pc[c] = "cancelled" /\ job[c] = "running") ~> (job[c] = "done")
        /\ (pc[c] = "waiting") ~> (pc[c] # "waiting")


\* C21: for slides and for predictions alike, an ensure-local call that
\* begins while the local path exists returns that path at once: it makes no
\* call to the remote store, hands no job to the pool and registers no
\* entry in _downloads_in_progress.
C21_LocalFastPath ==
    [][\A c \in Callers, res \in Resources :
          (/\ pc[c] = "idle" /\ pc'[c] # "idle"
           /\ key'[c] = res
           /\ localFile[res])
          => /\ pc'[c] = "returned"
             /\ result'[c] = Returned(res)
             /\ s3log'[c] = <<>>
             /\ job' = job
             /\ dip' = dip]_vars

\* the download routine run for caller o's Event ended in a transport error
TransferFailed(o) == job[o] = "done" /\ jres[o].class = "ClientError"

\* C23: a tile request refused for a bad level or bad coordinates is answered
\* as a client mistake (400), and a request that failed because the transfer
\* failed is answered otherwise (retry-worthy), also when the caller was
\* waiting on the Event of the caller whose transfer failed.
C23_ClientMistakeOrRetry ==
    /\ tile.class = "ValueError" => Status(tile.class) = 400
    /\ \A c \in Callers :
         (pc[c] = "failed" /\ ev[c] # NoCaller /\ TransferFailed(ev[c]))
            => Status(result[c].class) # 400

\* the call has begun and has neither returned nor raised
Active(c) == pc[c] \in {"registered", "downloading", "waiting"}

\* C25: an entry of _downloads_in_progress belongs to a call for that key
\* that is still running its transfer path; it is gone once that call has
\* ended, in success or in failure, so the map is empty whenever no call is
\* active; and a call for a key whose file is absent, made when no call for
\* the key is active (so also after a failed transfer), registers a new
\* entry and runs the transfer path itself.
C25_EntryOnlyInFlight ==
    /\ [](\A id \in SlideIds :
            /\ InProgress(id) =>
                  /\ key[dip[id]] = <<"slide", id>>
                  /\ pc[dip[id]] \in {"registered", "downloading"}
            /\ (\A c \in Callers : ~Active(c)) => ~InProgress(id))
    /\ [][\A c \in Callers, id \in SlideIds :
            (/\ pc[c] = "idle" /\ pc'[c] # "idle"
             /\ key'[c] = <<"slide", id>>
             /\ ~localFile[<<"slide", id>>]
             /\ \A d \in SlideCallers(id) : ~Active(d))
            => /\ pc'[c] = "registered"
               /\ dip'[id] = c
               /\ ev'[c] = c]_vars

\* a transfer for a slide failed, its entry was removed, and a later call
\* for the same slide ran a transfer of its own and returned the path
C25_Witness ==
    \E id \in SlideIds : \E o1, o2 \in SlideCallers(id) :
        /\ o1 # o2
        /\ pc[o1] = "failed" /\ ev[o1] = o1 /\ jres[o1].class = "ClientError"
        /\ pc[o2] = "returned" /\ ev[o2] = o2 /\ s3log[o2] = <<"head:200", "get:ok">>
        /\ ~InProgress(id)

\* C26: with no handler cancelled and the pool running every job it holds,
\* every call that has begun ends, returning the path or raising; and a
\* caller waiting on another's Event resumes only when that Event is set and
\* no download routine of the Event's creator is still queued or running.
C26_EveryCallEnds ==
    /\ \A c \in Callers : Active(c) ~> Finished(c)
    /\ [][\A c \in Callers :
            (pc[c] = "waiting" /\ pc'[c] # "waiting")
            => /\ ev[c] \in eventSet
               /\ job[ev[c]] \notin {"queued", "running"}
               /\ Finished(ev[c])]_vars

\* two callers waited on the third one's Event; its transfer was started and
\* failed; it raised the transport error and both waiters were woken and
\* raised
C26_Witness ==
    \E o \in Callers :
        /\ s3log[o] = <<"head:200", "get:error">>
        /\ pc[o] = "failed" /\ result[o] = ClientError("get")
        /\ \A w \in Callers \ {o} :
             /\ ev[w] = o
             /\ pc[w] = "failed"
             /\ result[w] = FailedElsewhereError(key[w])

\* a call of the remote store made for caller c is in progress
InRemoteCall(c) == job[c] = "running" \/ pc[c] = "fetching"

\* caller c's handler is on the loop thread, between two of its awaits
HoldsLoop(c) == pc[c] \in {"registered", "fetching"}

Written(res) ==
    \E c \in Callers : key[c] = res /\ Len(s3log[c]) = 2 /\ s3log[c][2] = "get:ok"

\* C28: a local path that an existence check can see holds a whole object,
\* and every call that returned a path, by the fast path, after running the
\* transfer or after waiting, returned the path of such a file.
C28_NoPartialPath ==
    /\ \A res \in Resources : localFile[res] => Written(res)
    /\ \A c \in Callers :
         result[c].class = "ok"
            => /\ result[c] = Returned(key[c])
               /\ localFile[key[c]]
               /\ Written(key[c])

\* one caller ran the transfer of a slide, one waited for it and one came
\* later and took the fast path; all three returned the path
C28_Witness ==
    \E id \in SlideIds : \E o, w, f \in SlideCallers(id) :
        /\ \A c \in {o, w, f} : result[c] = Returned(<<"slide", id>>)
        /\ ev[o] = o /\ s3log[o] = <<"head:200", "get:ok">>
        /\ ev[w] = o /\ w # o
        /\ ev[f] = NoCaller /\ s3log[f] = <<>>

\* ---------------------------------------------------------- tracker claims
\* how far along PENDING -> STARTED -> terminal a state is
Rank(st) == IF st = "PENDING" THEN 0 ELSE IF st \in TERMINAL THEN 2 ELSE 1

\* C3: a Task's state only moves forward along PENDING -> STARTED ->
\* {SUCCESS, FAILURE, REVOKED}, and a terminal state is never replaced by a
\* different one, for as long as the Task exists.
C3_StateMovesForward ==
    [][\A t \in DOMAIN tasks \cap DOMAIN tasks' :
          /\ Rank(tasks'[t].state) >= Rank(tasks[t].state)
          /\ tasks[t].state \in TERMINAL => tasks'[t].state = tasks[t].state]_vars

C5_CancelTerminal ==
    [][\A r \in Reqs, u \in Users, str \in TaskIdStrings :
          (/\ last'.op = "cancel"
           /\ GetTaskById(ParseTaskId(str), u) # NoTask
           /\ tasks[ParseTaskId(str)].state \in TERMINAL
           /\ CancelTask(r, u, str))
          => /\ tasks' = tasks
             /\ rq' = rq
             /\ last'.class = "ok"
             /\ last'.id = ParseTaskId(str)
             /\ last'.state = tasks[ParseTaskId(str)].state
             /\ last'.http = <<>>]_vars

\* cancel answered "already terminal" for a Task that has a completion time
C5_Witness ==
    /\ last.op = "cancel" /\ last.class = "ok"
    /\ last.http = <<>>
    /\ last.state \in TERMINAL
    /\ last.message = ALREADY_TERMINAL(last.state)
    /\ tasks[last.id].state = last.state
    /\ tasks[last.id].completed_at # NoTime

\* C6: a webhook whose credential is missing, empty or not the configured
\* secret fails with Unauthorized, asks the table for nothing and changes no
\* Task, whatever the secret is.
C6_WebhookUnauthorized ==
    [][\A <<k, itid, st, msg>> \in WebhookCalls :
          (/\ last'.op = "webhook"
           /\ k \in {NoneKey, ""} \/ k # secret
           /\ Webhook(k, itid, st, msg))
          => /\ tasks' = tasks
             /\ last'.class = "ValueError"
             /\ last'.message = UNAUTHORIZED
             /\ last'.db = <<>>]_vars

\* a webhook was refused under the empty default secret while a Task exists
C6_Witness ==
    /\ secret = ""
    /\ last.op = "webhook" /\ last.class = "ValueError"
    /\ last.message = UNAUTHORIZED
    /\ DOMAIN tasks # {}

\* C7: an authenticated webhook for an external id no Task has fails with
\* NotFound and changes no Task.
C7_WebhookUnknownId ==
    [][\A <<k, itid, st, msg>> \in WebhookCalls :
          (/\ last'.op = "webhook"
           /\ k \notin {NoneKey, ""} /\ k = secret
           /\ \A t \in DOMAIN tasks : tasks[t].inference_task_id # itid
           /\ Webhook(k, itid, st, msg))
          => /\ tasks' = tasks
             /\ last'.class = "ValueError"
             /\ last'.message = RESOURCE_NOT_FOUND]_vars

\* an authenticated webhook was answered NotFound while Tasks exist
C7_Witness ==
    /\ last.op = "webhook" /\ last.class = "ValueError"
    /\ last.message = RESOURCE_NOT_FOUND
    /\ last.db = <<"update_task_by_inference_task_id">>
    /\ Cardinality(DOMAIN tasks) = 2

\* C16: start calls the compute service first and, once the service has
\* answered successfully with a fresh job id, creates exactly one Task: its
\* state is the reported state, its external id the returned id, its owner
\* and slide the caller and the requested slide; no other Task changes.
C16_StartCreatesOneTask ==
    [][\A r \in Reqs, itid \in ExtIds, st \in StartStates :
          (/\ last'.op = "start"
           /\ rq[r].pc = "await_start"
           /\ RowsByExternalId(itid) = {}
           /\ StartRespond(r, TRUE, itid, st))
          => /\ last'.http = <<"POST /inference">>
             /\ nextId \notin DOMAIN tasks
             /\ DOMAIN tasks' = DOMAIN tasks \cup {nextId}
             /\ \A t \in DOMAIN tasks : tasks'[t] = tasks[t]
             /\ tasks'[nextId].state = st
             /\ tasks'[nextId].inference_task_id = itid
             /\ tasks'[nextId].user_id = rq[r].user
             /\ tasks'[nextId].slide_id = rq[r].slide
             /\ last'.class = "ok" /\ last'.id = nextId]_vars

\* C17: when the compute service's answer to start or to cancel is a timeout
\* or an error status, the handler fails with the HTTP error and the table
\* is left as it was: start creates no Task, cancel changes no Task.
C17_UpstreamFailure ==
    [][\A r \in Reqs :
          /\ (/\ last'.op = "start"
              /\ rq[r].pc = "await_start"
              /\ StartRespond(r, FALSE, "", ""))
             => tasks' = tasks /\ nextId' = nextId /\ last'.class = "HTTPError"
          /\ (/\ last'.op = "cancel"
              /\ rq[r].pc = "await_cancel"
              /\ CancelRespond(r, FALSE, ""))
             => tasks' = tasks /\ last'.class = "HTTPError"]_vars

\* cancel's DELETE failed and the Task it was for is still not terminal and
\* has no completion time
C17_Witness ==
    /\ last.op = "cancel" /\ last.class = "HTTPError"
    /\ last.http = <<"DELETE /inference/tasks">>
    /\ \E t \in DOMAIN tasks :
         tasks[t].state \notin TERMINAL /\ tasks[t].completed_at = NoTime

\* C18: cancel by the owner on a Task that is not terminal suspends in a
\* DELETE for that Task's external id without touching the table; when the
\* service answers, the Task (if it is still there) gets the answered state
\* and the current time as its completion time, and the caller is told that
\* state.
C18_CancelNonTerminal ==
    [][\A r \in Reqs :
          /\ \A u \in Users, str \in TaskIdStrings :
                (/\ rq[r].pc = "idle" /\ (last'.op = "cancel" \/ rq' # rq)
                 /\ GetTaskById(ParseTaskId(str), u) # NoTask
                 /\ tasks[ParseTaskId(str)].state \notin TERMINAL
                 /\ CancelTask(r, u, str))
                => /\ rq'[r].pc = "await_cancel"
                   /\ rq'[r].task = ParseTaskId(str)
                   /\ rq'[r].itid = tasks[ParseTaskId(str)].inference_task_id
                   /\ tasks' = tasks
          /\ \A st \in CancelStates :
                (/\ last'.op = "cancel"
                 /\ rq[r].pc = "await_cancel"
                 /\ GetTaskById(rq[r].task, rq[r].user) # NoTask
                 /\ CancelRespond(r, TRUE, st))
                => /\ tasks'[rq[r].task].state = st
                   /\ tasks'[rq[r].task].completed_at = now
                   /\ \A t \in DOMAIN tasks \ {rq[r].task} : tasks'[t] = tasks[t]
                   /\ DOMAIN tasks' = DOMAIN tasks
                   /\ last'.class = "ok" /\ last'.state = st
                   /\ last'.http = <<"DELETE /inference/tasks">>]_vars

\* cancel stored REVOKED on a Task that was not terminal, with a completion
\* time later than its creation
C18_Witness ==
    /\ last.op = "cancel" /\ last.class = "ok"
    /\ last.http = <<"DELETE /inference/tasks">>
    /\ last.before \in {"PENDING", "STARTED"}
    /\ last.id \in DOMAIN tasks
    /\ tasks[last.id].state = "REVOKED"
    /\ tasks[last.id].message = CANCELLED
    /\ tasks[last.id].completed_at = now
    /\ tasks[last.id].completed_at > tasks[last.id].created_at

\* What a caller is told when the Task is not there for them
NotFound(op) ==
    Outcome(op, "ValueError", NoTask, "", RESOURCE_NOT_FOUND, NoTime,
            <<"get_task_by_id">>, <<>>)

\* the Task does not exist, or its slide is another user's
NotTheirs(tid, u) == tid \notin DOMAIN tasks \/ slides[tasks[tid].slide_id] # u

\* C19: cancel and the status read by a user, for a numeric id of a Task that
\* does not exist or whose slide is another user's, fail with NotFound, call
\* no service and change no Task; the outcome is one and the same value in
\* both cases, so it does not tell whether the Task exists.
C19_NotFoundHidesExistence ==
    [][(last'.op \in {"cancel", "status"} \/ rq' # rq) =>
       \A u \in Users, str \in TaskIdStrings :
          /\ \A r \in Reqs :
                (/\ ParseTaskId(str) # NoTask
                 /\ NotTheirs(ParseTaskId(str), u)
                 /\ CancelTask(r, u, str))
                => last' = NotFound("cancel") /\ rq' = rq /\ tasks' = tasks
          /\ (/\ ParseTaskId(str) # NoTask
              /\ NotTheirs(ParseTaskId(str), u)
              /\ GetTaskStatus(u, str))
             => last' = NotFound("status") /\ rq' = rq /\ tasks' = tasks]_vars

\* the status read was answered NotFound while Task 1 exists on u1's slide
\* and Task 2 does not exist
C19_Witness ==
    /\ last = NotFound("status")
    /\ DOMAIN tasks = {1}
    /\ slides[tasks[1].slide_id] = "u1"

\* the operations that are not start, cancel or onWebhook
ReadOps == {"list", "status", "predictions", "slide_tasks"}

C22_StateInAll == \A t \in DOMAIN tasks : tasks[t].state \in ALL

\* C24: a handler's read of a Task and its write are one atomic step: while
\* cancel is suspended between get_task_by_id and update_task no other
\* invocation changes that Task, and a cancel that read a state that is not
\* terminal does not write over a terminal one.
C24_AtomicReadModifyWrite ==
    [][\A r \in Reqs :
          (rq[r].pc = "await_cancel" /\ rq[r].task \in DOMAIN tasks)
          => /\ (rq'[r].pc = "await_cancel" /\ rq[r].task \in DOMAIN tasks')
                => tasks'[rq[r].task] = tasks[rq[r].task]
             /\ \A st \in CancelStates :
                   CancelRespond(r, TRUE, st)
                   => (tasks[rq[r].task].state \notin TERMINAL
                       \/ tasks'[rq[r].task] = tasks[rq[r].task])]_vars

\* ------------------------------------------------------------ cache claims
\* C8: a lookup never returns an entry more than ttl after it was inserted,
\* and a lookup never fails: a path whose entry has expired is loaded afresh,
\* stored and returned.
C8_NoStaleNoFailure ==
    /\ got.class = "ok" => got.at - got.inserted <= ttl
    /\ got.class # "KeyError"

\* C29: the TTL counts from insertion: a hit leaves the cache, and so the
\* entry's expiry, as it was and returns the stored value, every entry
\* expires ttl after it was inserted, and no lookup returns a value more
\* than ttl after its insertion, however often it was read in between.
C29_AbsoluteTtl ==
    /\ [](/\ \A p \in DOMAIN cache : cache[p].expires = cache[p].inserted + ttl
          /\ got.class = "ok" => got.at <= got.inserted + ttl)
    /\ [][(lk.pc = "hit" /\ LookupGet)
            => /\ cache' = cache
               /\ got'.class = "ok"
                    => /\ got'.inserted = cache[lk.path].inserted
                       /\ got'.at < cache[lk.path].expires]_vars

\* a hit returned, half a ttl after its insertion, an entry that is still
\* in the cache with the expiry it was given when inserted
C29_Witness ==
    /\ got.class = "ok" /\ got.how = "hit"
    /\ got.at = got.inserted + Quantum
    /\ got.path \in DOMAIN cache
    /\ cache[got.path].inserted = got.inserted
    /\ cache[got.path].expires = got.inserted + ttl
    /\ timer > got.at

\* two calls for the same path, both made while the path was not cached,
\* one of them while the other was inside the function, and both over
Concurrent(c, d) == c \in cq[d].peers \/ d \in cq[c].peers

SameMiss(c, d) ==
    /\ c # d
    /\ cq[c].pc = "done" /\ cq[d].pc = "done"
    /\ cq[c].path = cq[d].path
    /\ cq[c].absent /\ cq[d].absent
    /\ Concurrent(c, d)

BothLoaded(c, d) == cq[c].how = "load" /\ cq[d].how = "load"

StillCached(c, d) ==
    /\ ~cq[c].cleared /\ ~cq[d].cleared
    /\ cq[c].entry - cq[d].entry < ttl
    /\ cq[d].entry - cq[c].entry < ttl

Loading(c) == cq[c].pc = "locked" /\ lk.pc \in {"miss", "loaded"}

\* C31: loads of distinct paths do not serialize: while one thread is
\* loading path A, a thread that called for a different path B can go on
\* to its lookup.
C31_DistinctPathsProceed ==
    \A c, d \in Threads :
        (Loading(c) /\ cq[d].pc = "blocked" /\ cq[d].path # cq[c].path)
            => ENABLED LookupBegin(d)

\* ------------------------------------------------------------- tile claims
Rendered == tile.class = "ok"
Requested == tile.class # "none"
NumLevels == Len(info.dz_dims)
ValidLevel == 0 <= tile.level /\ tile.level < NumLevels
LvlW == info.dz_dims[tile.level + 1][1]
LvlH == info.dz_dims[tile.level + 1][2]
\* what the caller of gpu_render_tile can tell of a result
Observable(t) == <<t.class, t.args>>

\* C11: the level check refuses a request, with no image region read, when
\* the level is negative or is at least the number of pyramid levels, and
\* refuses no other level.
C11_InvalidLevel ==
    Requested =>
        /\ tile.raisedAt = "level" <=> (tile.level < 0 \/ tile.level >= NumLevels)
        /\ tile.raisedAt = "level" => (tile.class = "ValueError" /\ tile.reads = 0)

\* level 15 of a 10000 x 8000 slide, which has levels 0..14, was refused
C11_Witness ==
    /\ info.full_width = 10000 /\ info.full_height = 8000
    /\ tile.level = 15 /\ tile.raisedAt = "level" /\ tile.class = "ValueError"

\* C12: at a valid level the origin check refuses a request, with no image
\* region read, exactly when col*T >= lvlW or row*T >= lvlH, and what the
\* caller gets then differs from what it gets for an invalid level.
C12_TileOutOfBounds ==
    (Requested /\ ValidLevel) =>
        /\ tile.raisedAt = "origin" <=>
              (tile.col * tile_size >= LvlW \/ tile.row * tile_size >= LvlH)
        /\ tile.raisedAt = "origin" =>
              /\ tile.class = "ValueError" /\ tile.reads = 0
              /\ Observable(tile) #
                   Observable(GpuRenderTile(info, NumLevels, tile.col, tile.row))

\* C13: the pyramid has ceil(log2(max(width, height))) + 1 levels and level
\* L has the dimensions ceil(width / 2^(maxLevel-L)), ceil(height /
\* 2^(maxLevel-L)); for 10000 x 8000 maxLevel is 14, level 14 is (10000,
\* 8000) and level 0 is (1, 1).
C13_PyramidLevels ==
    info # NoInfo =>
        LET w == info.full_width
            h == info.full_height
            m == IF w >= h THEN w ELSE h
            maxLevel == NumLevels - 1
        IN /\ maxLevel >= 0
           /\ Pow2(maxLevel) >= m
           /\ maxLevel > 0 => Pow2(maxLevel - 1) < m
           /\ \A L \in 0..maxLevel :
                LET scale == Pow2(maxLevel - L)
                    d == info.dz_dims[L + 1]
                IN /\ (d[1] - 1) * scale < w /\ w <= d[1] * scale
                   /\ (d[2] - 1) * scale < h /\ h <= d[2] * scale
           /\ (w = 10000 /\ h = 8000) =>
                /\ maxLevel = 14
                /\ info.dz_dims[15] = <<10000, 8000>>
                /\ info.dz_dims[1] = <<1, 1>>

\* the 10000 x 8000 slide is open with its 15 levels
C13_Witness ==
    /\ info.full_width = 10000 /\ info.full_height = 8000
    /\ NumLevels = 15
    /\ info.dz_dims[14] = <<5000, 4000>>

\* C14: an accepted request has the visible extent (min(T, lvlW - col*T),
\* min(T, lvlH - row*T)); level 14, col 19, row 15 of a 10000 x 8000 slide
\* gives (272, 320).
C14_VisibleExtent ==
    Rendered =>
        LET restW == LvlW - tile.col * tile_size
            restH == LvlH - tile.row * tile_size
        IN /\ tile.extent[1] = (IF restW < tile_size THEN restW ELSE tile_size)
           /\ tile.extent[2] = (IF restH < tile_size THEN restH ELSE tile_size)
           /\ (info.full_width = 10000 /\ info.full_height = 8000 /\ tile.level = 14
               /\ tile.col = 19 /\ tile.row = 15) => tile.extent = <<272, 320>>

\* the corner tile of the 10000 x 8000 slide was rendered
C14_Witness ==
    /\ Rendered
    /\ info.full_width = 10000 /\ info.full_height = 8000
    /\ tile.level = 14 /\ tile.col = 19 /\ tile.row = 15
    /\ tile.extent = <<272, 320>>

\* C15: a rendered tile is a T x T buffer; when the visible extent is not
\* (T, T) the image fills the tw x th rectangle at the top left and every
\* pixel outside it is zero; when it is (T, T) nothing is padded.
C15_PaddedTile ==
    Rendered =>
        LET tw == tile.extent[1]
            th == tile.extent[2]
            buf == tile.buffer
        IN /\ buf.width = tile_size /\ buf.height = tile_size
           /\ buf.padded <=> (tile.extent # <<tile_size, tile_size>>)
           /\ PixelAt(buf, 0, 0) = "image"
           /\ PixelAt(buf, tw - 1, th - 1) = "image"
           /\ tw < tile_size => \A py \in {0, th - 1, tile_size - 1} :
                                   PixelAt(buf, tw, py) = "zero"
           /\ th < tile_size => \A px \in {0, tw - 1, tile_size - 1} :
                                   PixelAt(buf, px, th) = "zero"
           /\ buf.padded => PixelAt(buf, tile_size - 1, tile_size - 1) = "zero"

\* an edge tile narrower and lower than T was rendered and padded
C15_Witness ==
    /\ Rendered
    /\ tile.extent[1] < tile_size /\ tile.extent[2] < tile_size
    /\ tile.buffer.padded
    /\ tile.buffer.content = tile.extent

\* C32: the native level chosen has the largest factor of the list that is
\* <= the requested scale, and is the lowest index among the levels with
\* that factor; when no factor is <= the scale, level 0 is chosen.
C32_BestLevel ==
    pick # NoPick =>
        LET ds == pick.level_downsamples
            fit == {i \in 1..Len(ds) : ds[i] <= pick.ds_needed}
        IN IF fit = {} THEN pick.lvl = 0
           ELSE LET best == CHOOSE i \in fit : \A j \in fit : ds[j] <= ds[i]
                    first == CHOOSE i \in fit :
                                /\ ds[i] = ds[best]
                                /\ \A j \in fit : ds[j] = ds[best] => i <= j
                IN pick.lvl = first - 1

\* C33: every job the compute service has accepted for start has a Task
\* carrying its external id once start is over, so that a webhook for the
\* job finds it; also when the slide was deleted while start was waiting
\* for the service's answer.
C33_EnqueuedJobHasTask ==
    [][\A r \in Reqs, itid \in ExtIds, st \in StartStates :
          (/\ last'.op = "start"
           /\ rq[r].pc = "await_start"
           /\ StartRespond(r, TRUE, itid, st))
          => \E t \in DOMAIN tasks' : tasks'[t].inference_task_id = itid]_vars

\* C34: once delete_slide has completed for a slide, no local file of the
\* slide exists, and none appears later, whatever ensure-local calls and
\* transfers for the slide were under way.
C34_NoFileAfterDelete ==
    \A sid \in SlideIds :
        slides[sid] = Deleted => \A k \in Kinds : ~localFile[<<k, sid>>]

\* C35: every tile request that is accepted, negative numbers included, has
\* its origin inside the level, 0 <= col*T < lvlW and 0 <= row*T < lvlH, and
\* a visible extent with 1 <= tw <= T and 1 <= th <= T.
C35_AcceptedOriginInside ==
    Rendered =>
        /\ 0 <= tile.col * tile_size /\ tile.col * tile_size < LvlW
        /\ 0 <= tile.row * tile_size /\ tile.row * tile_size < LvlH
        /\ 1 <= tile.extent[1] /\ tile.extent[1] <= tile_size
        /\ 1 <= tile.extent[2] /\ tile.extent[2] <= tile_size

\* C36: a Task has a completion time exactly when its state is terminal
\* (SUCCESS, FAILURE or REVOKED).
C36_CompletedIffTerminal ==
    \A t \in DOMAIN tasks :
        tasks[t].completed_at # NoTime <=> tasks[t].state \in TERMINAL

\* C37: no two Tasks have the same external job id, and a webhook delivery
\* changes at most the one Task whose external id is the delivered id:
\* every other Task, and that Task's id, external id, slide, owner,
\* confidence and created_at, stay as they were.
C37_WebhookTouchesOneTask ==
    /\ [](\A t1, t2 \in DOMAIN tasks :
            tasks[t1].inference_task_id = tasks[t2].inference_task_id => t1 = t2)
    /\ [][\A <<k, itid, st, msg>> \in WebhookCalls :
            (/\ last'.op = "webhook"
             /\ Webhook(k, itid, st, msg))
            => /\ DOMAIN tasks' = DOMAIN tasks
               /\ \A t \in DOMAIN tasks :
                    /\ tasks[t].inference_task_id # itid => tasks'[t] = tasks[t]
                    /\ tasks'[t].inference_task_id = tasks[t].inference_task_id
                    /\ tasks'[t].slide_id = tasks[t].slide_id
                    /\ tasks'[t].user_id = tasks[t].user_id
                    /\ tasks'[t].confidence = tasks[t].confidence
                    /\ tasks'[t].created_at = tasks[t].created_at]_vars

\* of two Tasks with different external ids a webhook for the second has
\* updated the second and left the first as start created it
C37_Witness ==
    /\ last.op = "webhook" /\ last.class = "ok" /\ last.id = 2
    /\ DOMAIN tasks = {1, 2}
    /\ tasks[1].inference_task_id # tasks[2].inference_task_id
    /\ tasks[2].state = last.state /\ tasks[2].completed_at = last.at
    /\ tasks[1].message = QUEUED /\ tasks[1].completed_at = NoTime

\* C38: a tile, descriptor or predictions request for a slide that does not
\* exist or is not the requesting user's fails before the materializer is
\* called: no transfer is started, no coordination entry is registered and
\* the slide-info cache is neither read nor written.
C38_RefusedBeforeMaterializer ==
    [][\A c \in Callers, u \in Users, sid \in SlideIds :
          (/\ pc[c] = "idle" /\ pc'[c] # "idle"
           /\ slides[sid] # u
           /\ ViewSlide(c, u, sid) \/ ViewPredictions(c, u, sid))
          => /\ pc'[c] = "failed"
             /\ result'[c] = SlideNotFoundError(sid)
             /\ key' = key /\ ev' = ev /\ dip' = dip /\ eventSet' = eventSet
             /\ job' = job /\ jres' = jres /\ s3log' = s3log
             /\ localFile' = localFile /\ remote' = remote
             /\ cache' = cache /\ lk' = lk /\ cq' = cq /\ got' = got]_vars

\* while the owner's request for slide 1 is downloading it, a request for
\* the same slide was refused, having asked the bucket for nothing
C38_Witness ==
    \E c, d \in Callers :
        /\ slides[OneSlide] = "u1"
        /\ pc[d] = "downloading" /\ key[d] = <<"slide", OneSlide>>
        /\ dip[OneSlide] = d
        /\ pc[c] = "failed" /\ result[c] = SlideNotFoundError(OneSlide)
        /\ key[c] = NoKey /\ s3log[c] = <<>> /\ job[c] = "none"

\* C39: predictions of a task are served only to the owner of the task and
\* only when its state is SUCCESS at the time of the request; for the
\* owner's task in any other state the request fails with the invalid-state
\* error, and no predictions transfer is started.
C39_PredictionsOnlyForSuccess ==
    [][\A u \in Users, tid \in 1..(MaxTasks + 1) :
          (/\ last'.op = "predictions"
           /\ GetTaskPredictions(u, tid))
          => LET owned == tid \in DOMAIN tasks /\ slides[tasks[tid].slide_id] = u IN
             /\ last'.class = "ok" => (owned /\ tasks[tid].state = "SUCCESS")
             /\ ~owned => (last'.class = "ValueError"
                            /\ last'.message = RESOURCE_NOT_FOUND)
             /\ (owned /\ tasks[tid].state # "SUCCESS")
                  => /\ last'.class = "ValueError"
                     /\ last'.message = INVALID_STATE
                     /\ last'.state = tasks[tid].state
                     /\ last'.db = <<"get_task_by_id">>
             /\ last'.http = <<>>
             /\ tasks' = tasks
             /\ pc' = pc /\ key' = key /\ job' = job /\ s3log' = s3log
             /\ dip' = dip /\ localFile' = localFile]_vars

\* the owner asked for the predictions of a cancelled task and was answered
\* with the invalid-state error, while another task of the slide had succeeded
C39_Witness ==
    /\ last.op = "predictions" /\ last.class = "ValueError"
    /\ last.message = INVALID_STATE
    /\ last.id \in DOMAIN tasks
    /\ tasks[last.id].state = "REVOKED" /\ last.state = "REVOKED"
    /\ \E t \in DOMAIN tasks : tasks[t].state = "SUCCESS"
    /\ \A c \in Callers : s3log[c] = <<>>

====
